---- MODULE Spec2Model ----
(***************************************************************************)
(* Model of fwprovider/nodes/storage_helpers.go: the size drift            *)
(* reconciler (applySizeRequiresReplace) and the read / delete error       *)
(* classifiers (handleReadResult, handleDatastoreDeleteError).             *)
(*                                                                         *)
(* Text is a sequence of strings.  Byte strings handed to strconv.ParseInt *)
(* are sequences of one-character strings; error messages and diagnostic   *)
(* texts are sequences of words / fixed fragments, so that                 *)
(* strings.Contains is a real contiguous-subsequence search.               *)
(* An int64 is a sign and a decimal magnitude (a sequence of digits        *)
(* without leading zeros), because 2^63 does not fit the checker's         *)
(* integers; the 64-bit range is kept exactly.                             *)
(***************************************************************************)
EXTENDS Integers, Sequences, FiniteSets, TLC

VARIABLES resp, call, ncalls

vars == <<resp, call, ncalls>>

(***************************************************************************)
(* Bounds                                                                  *)
(***************************************************************************)
MaxLen == 3

MaxMsgLen == 3

MaxCalls == 3

(***************************************************************************)
(* Text helpers                                                            *)
(***************************************************************************)
\* strings.Contains on texts: sub occurs as a contiguous run of s.
Contains(s, sub) ==
    \E i \in 0..(Len(s) - Len(sub)) : SubSeq(s, i + 1, i + Len(sub)) = sub

\* All texts over alphabet A of length 0..n.
TextsUpTo(A, n) == UNION {[1..m -> A] : m \in 0..n}

(***************************************************************************)
(* int64 values and strconv.ParseInt(s, 10, 64)                            *)
(***************************************************************************)
DigitChars == <<"0", "1", "2", "3", "4", "5", "6", "7", "8", "9">>

IsDigit(c) == \E i \in 1..10 : DigitChars[i] = c

DigitVal(c) == (CHOOSE i \in 1..10 : DigitChars[i] = c) - 1

\* -1, 0, 1 as a < b, a = b, a > b for magnitudes without leading zeros.
RECURSIVE CmpFrom(_, _, _)
CmpFrom(a, b, i) ==
    IF i > Len(a) THEN 0
    ELSE IF a[i] < b[i] THEN -1
    ELSE IF a[i] > b[i] THEN 1
    ELSE CmpFrom(a, b, i + 1)

CmpMag(a, b) ==
    IF Len(a) < Len(b) THEN -1
    ELSE IF Len(a) > Len(b) THEN 1
    ELSE CmpFrom(a, b, 1)

\* n * 10 + d
MulAdd(n, d) == IF n = <<0>> THEN <<d>> ELSE Append(n, d)

\* 2^64 - 1
MaxUint64 == <<1,8,4,4,6,7,4,4,0,7,3,7,0,9,5,5,1,6,1,5>>

\* maxUint64/10 + 1
UintCutoff == <<1,8,4,4,6,7,4,4,0,7,3,7,0,9,5,5,1,6,2>>

\* 1 << 63
IntCutoff == <<9,2,2,3,3,7,2,0,3,6,8,5,4,7,7,5,8,0,8>>

\* 1 << 63 - 1
MaxInt64Mag == <<9,2,2,3,3,7,2,0,3,6,8,5,4,7,7,5,8,0,7>>

I64(neg, mag) == [neg |-> neg /\ mag # <<0>>, mag |-> mag]

\* The digit loop of strconv.ParseUint(s, 10, 64), from index i with
\* accumulator n.
RECURSIVE ParseUintLoop(_, _, _)
ParseUintLoop(s, i, n) ==
    IF i > Len(s) THEN [n |-> n, err |-> "ok"]
    ELSE IF ~IsDigit(s[i]) THEN [n |-> <<0>>, err |-> "syntax"]
    ELSE IF CmpMag(n, UintCutoff) >= 0 THEN [n |-> MaxUint64, err |-> "range"]
    ELSE IF CmpMag(MulAdd(n, DigitVal(s[i])), MaxUint64) > 0
         THEN [n |-> MaxUint64, err |-> "range"]
    ELSE ParseUintLoop(s, i + 1, MulAdd(n, DigitVal(s[i])))

ParseUint(s) ==
    IF s = <<>> THEN [n |-> <<0>>, err |-> "syntax"]
    ELSE ParseUintLoop(s, 1, <<0>>)

\* strconv.ParseInt(s, 10, 64): the value and "ok" | "syntax" | "range".
ParseInt(s) ==
    IF s = <<>> THEN [val |-> I64(FALSE, <<0>>), err |-> "syntax"]
    ELSE LET neg  == s[1] = "-"
             rest == IF s[1] = "+" \/ s[1] = "-" THEN Tail(s) ELSE s
             u    == ParseUint(rest)
         IN  IF u.err = "syntax"
               THEN [val |-> I64(FALSE, <<0>>), err |-> "syntax"]
             ELSE IF ~neg /\ CmpMag(u.n, IntCutoff) >= 0
               THEN [val |-> I64(FALSE, MaxInt64Mag), err |-> "range"]
             ELSE IF neg /\ CmpMag(u.n, IntCutoff) > 0
               THEN [val |-> I64(TRUE, IntCutoff), err |-> "range"]
             ELSE [val |-> I64(neg, u.n), err |-> "ok"]

\* (*strconv.NumError).Error() of a failed ParseInt(s, 10, 64).
NumErrorText(s, err) ==
    <<"strconv.ParseInt: parsing \"">> \o s \o
    <<IF err = "range" THEN "\": value out of range" ELSE "\": invalid syntax">>

\* fmt's %d of an int64.
RECURSIVE FormatMag(_)
FormatMag(m) ==
    IF m = <<>> THEN <<>> ELSE <<DigitChars[Head(m) + 1]>> \o FormatMag(Tail(m))

FormatInt(v) == (IF v.neg THEN <<"-">> ELSE <<>>) \o FormatMag(v.mag)

(***************************************************************************)
(* The response objects of the plugin framework, as one record             *)
(***************************************************************************)
\* types.Int64Null()
Int64Null == [null |-> TRUE, neg |-> FALSE, mag |-> <<0>>]

\* types.Int64Value(v)
Int64Value(v) == [null |-> FALSE, neg |-> v.neg, mag |-> v.mag]

Diagnostic(severity, summary, detail) ==
    [severity |-> severity, summary |-> summary, detail |-> detail]

\* Mutation: the error replaces what the sink held instead of being appended.
AddErrorOverwrites(r, summary, detail) ==
    [r EXCEPT !.Diagnostics = <<Diagnostic("Error", summary, detail)>>]

\* resp.Diagnostics.AddError(summary, detail)
AddError(r, summary, detail) ==
    [r EXCEPT !.Diagnostics = Append(@, Diagnostic("Error", summary, detail))]

\* resp.Diagnostics.AddWarning(summary, detail)
AddWarning(r, summary, detail) ==
    [r EXCEPT !.Diagnostics = Append(@, Diagnostic("Warning", summary, detail))]

\* resp.State.RemoveResource(ctx)
RemoveResource(r) == [r EXCEPT !.StateRemoved = TRUE]

(***************************************************************************)
(* applySizeRequiresReplace                                                *)
(***************************************************************************)
\* originalStateSizeBytes: a nil slice, or a (possibly empty) byte string.
NoBaseline == [present |-> FALSE, bytes |-> <<>>]

Baseline(s) == [present |-> TRUE, bytes |-> s]

\* Mutation: the nil check is missing, the nil slice goes on to the parser.
BaselineNeverAbsent(b) == FALSE

\* originalStateSizeBytes == nil
BaselineAbsent(b) == ~b.present

\* Mutation: a parse failure returns silently, as an absent baseline does.
ParseErrorIgnored(r, resourceKind, s, err) == r

\* The err != nil branch: one Error diagnostic, nothing else.
ReportParseError(r, resourceKind, s, err) ==
    AddError(r,
        <<"Unable to convert original state ", resourceKind, " size to int64">>,
        <<"Unexpected error in parsing string to int64, key original_state_size. ",
          "Please retry the operation or report this issue to the provider developers.\n\n",
          "Error: ">> \o NumErrorText(s, err))

\* Mutation: only growth counts as drift.
DriftOnGrowthOnly(stateSize, originalStateSize, planOverwrite) ==
    /\ ~stateSize.neg
    /\ originalStateSize.neg \/ CmpMag(stateSize.mag, originalStateSize.mag) > 0
    /\ planOverwrite

\* Mutation: the policy flag is not consulted.
DriftIgnoresPolicy(stateSize, originalStateSize, planOverwrite) ==
    stateSize # originalStateSize

\* stateSize != originalStateSize && planOverwrite
DriftDetected(stateSize, originalStateSize, planOverwrite) ==
    stateSize # originalStateSize /\ planOverwrite

\* Mutation: the plan is pinned to the observed size.
PinObservedValue(r, originalStateSize, stateSize) ==
    [r EXCEPT !.PlanValue = Int64Value(stateSize)]

\* resp.PlanValue = types.Int64Value(originalStateSize)
PinPlanValue(r, originalStateSize, stateSize) ==
    [r EXCEPT !.PlanValue = Int64Value(originalStateSize)]

\* The detail of the drift warning.
DriftDetail(originalStateSize, stateSize) ==
    <<"Previous size: ">> \o FormatInt(originalStateSize) \o
    <<" saved in state does not match current size from datastore: ">> \o
    FormatInt(stateSize) \o
    <<". You can disable this behaviour by using overwrite=false">>

\* The body of the drift branch.
ForceReplace(r, originalStateSize, stateSize, resourceKind) ==
    AddWarning(
        PinPlanValue([r EXCEPT !.RequiresReplace = TRUE], originalStateSize, stateSize),
        <<"The ", resourceKind, " size in datastore has changed outside of terraform.">>,
        DriftDetail(originalStateSize, stateSize))

applySizeRequiresReplace(r, originalStateSizeBytes, stateSize, planOverwrite, resourceKind) ==
    IF BaselineAbsent(originalStateSizeBytes) THEN r
    ELSE LET p == ParseInt(originalStateSizeBytes.bytes)
         IN  IF p.err # "ok"
               THEN ReportParseError(r, resourceKind, originalStateSizeBytes.bytes, p.err)
             ELSE IF DriftDetected(stateSize, p.val, planOverwrite)
               THEN ForceReplace(r, p.val, stateSize, resourceKind)
             ELSE r

(***************************************************************************)
(* Errors                                                                  *)
(***************************************************************************)
\* A nil error.
NilErr == [isNil |-> TRUE, msg |-> <<>>, chain |-> <<>>]

\* An error: its Error() text and the identities met along its Unwrap chain
\* (the error itself first).
Err(msg, chain) == [isNil |-> FALSE, msg |-> msg, chain |-> chain]

\* errors.Is(err, target)
ErrorsIs(err, target) == \E i \in 1..Len(err.chain) : err.chain[i] = target

AuthMarker == <<"failed", "to", "authenticate">>

ParseMarker == <<"unable", "to", "parse">>

(***************************************************************************)
(* handleReadResult                                                        *)
(***************************************************************************)
\* Mutation: the marker is compared with the whole message.
IsExactlyAuthMarker(err) == err.msg = AuthMarker

\* strings.Contains(err.Error(), "failed to authenticate")
IsAuthFailure(err) == Contains(err.msg, AuthMarker)

\* The authentication branch.
ReportAuthFailure(r, err) == AddError(r, <<"Failed to authenticate">>, err.msg)

\* Mutation: the warning is emitted but the resource stays in state.
ReportNotExistKeepsState(r, err, notExistMessage) ==
    AddWarning(r, notExistMessage, err.msg)

\* The fall-through branch for any other error.
ReportNotExist(r, err, notExistMessage) ==
    RemoveResource(AddWarning(r, notExistMessage, err.msg))

\* The response after the call, and the returned flag.
handleReadResult(r, err, notExistMessage) ==
    IF ~err.isNil
      THEN IF IsAuthFailure(err)
             THEN [resp |-> ReportAuthFailure(r, err), handled |-> TRUE]
             ELSE [resp |-> ReportNotExist(r, err, notExistMessage), handled |-> TRUE]
      ELSE [resp |-> r, handled |-> FALSE]

(***************************************************************************)
(* handleDatastoreDeleteError                                              *)
(***************************************************************************)
\* Mutation: the sentinel is compared with ==, a wrapped sentinel is missed.
DeleteSucceededUnwrapped(err) == err.isNil \/ err.chain[1] = "ErrResourceDoesNotExist"

\* err == nil || errors.Is(err, api.ErrResourceDoesNotExist)
DeleteSucceeded(err) == err.isNil \/ ErrorsIs(err, "ErrResourceDoesNotExist")

\* Mutation: the marker is compared with the whole message.
IsExactlyParseMarker(err) == err.msg = ParseMarker

\* strings.Contains(err.Error(), "unable to parse")
IsParseFailure(err) == Contains(err.msg, ParseMarker)

ReportMissing(r, id, itemKind) ==
    AddWarning(r,
        <<"Datastore ", itemKind, " does not exist">>,
        <<"Could not delete datastore ", itemKind, " '", id,
          "', it does not exist or has been deleted outside of Terraform.">>)

ReportDeleteFailure(r, err, id, itemKind) ==
    AddError(r,
        <<"Error deleting datastore ", itemKind>>,
        <<"Could not delete datastore ", itemKind, " '", id,
          "', unexpected error: ">> \o err.msg)

handleDatastoreDeleteError(r, err, id, itemKind) ==
    IF DeleteSucceeded(err) THEN r
    ELSE IF IsParseFailure(err) THEN ReportMissing(r, id, itemKind)
    ELSE ReportDeleteFailure(r, err, id, itemKind)

(***************************************************************************)
(* Inputs                                                                  *)
(***************************************************************************)
Bytes == {"0", "1", "9", "-", "+", "x"}

\* Byte strings around the edges of the int64 and uint64 ranges.
EdgeTexts ==
    { FormatMag(MaxInt64Mag),
      FormatMag(IntCutoff),
      <<"-">> \o FormatMag(IntCutoff),
      <<"-">> \o FormatMag(MulAdd(SubSeq(IntCutoff, 1, 18), 9)),
      <<"+">> \o FormatMag(MaxInt64Mag),
      <<"0", "0">> \o FormatMag(MaxInt64Mag),
      FormatMag(MaxUint64),
      FormatMag(MulAdd(SubSeq(MaxUint64, 1, 19), 6)),
      FormatMag(MaxUint64) \o <<"9", "x">>,
      FormatMag(MaxInt64Mag) \o <<"x">> }

Baselines ==
    {NoBaseline} \cup {Baseline(s) : s \in TextsUpTo(Bytes, MaxLen) \cup EdgeTexts}

StateSizes ==
    { I64(FALSE, <<0>>), I64(FALSE, <<1>>), I64(TRUE, <<1>>), I64(FALSE, <<1, 9>>),
      I64(FALSE, MaxInt64Mag), I64(TRUE, IntCutoff) }

ResourceKinds == {"file", "disk"}

\* The plan value the response is constructed with.
RequestPlanValues == {Int64Null, Int64Value(I64(FALSE, <<1>>))}

Words == {"failed", "to", "authenticate", "unable", "parse"}

\* Messages longer than MaxMsgLen: a marker inside other text, both markers.
LongMsgs ==
    { <<"received", "an", "HTTP", "401", "response", "-", "Reason:">> \o AuthMarker,
      <<"error", "retrieving", "file:">> \o AuthMarker \o <<"for", "user">>,
      AuthMarker \o <<":">> \o ParseMarker,
      ParseMarker \o <<"volume", "ID:">> \o AuthMarker,
      <<"unable", "to", "parse,", "volume", "ID">>,
      <<"failed", "to", "re-authenticate">>,
      <<"the", "requested", "resource", "does", "not", "exist">>,
      <<"the", "requested", "resource", "does", "not", "exist:">> \o ParseMarker \o <<"id">>,
      <<"object", "xyz", "not", "found">> }

Msgs == TextsUpTo(Words, MaxMsgLen) \cup LongMsgs

Chains ==
    { <<"other">>, <<"ErrResourceDoesNotExist">>,
      <<"other", "ErrResourceDoesNotExist">>, <<"other", "other">> }

Errs == {NilErr} \cup {Err(m, c) : m \in Msgs, c \in Chains}

NotExistMessages == {<<"Datastore file does not exist">>, <<"msg">>}

Ids == {"x", "local:iso/a.iso"}

ItemKinds == {"file", "disk"}

(***************************************************************************)
(* The state machine                                                       *)
(***************************************************************************)
\* A freshly constructed response.
NewResponse(planValue) ==
    [Diagnostics |-> <<>>, RequiresReplace |-> FALSE,
     PlanValue |-> planValue, StateRemoved |-> FALSE]

\* The record of the last call: which function, its arguments, the response
\* it was handed, and what it returned.
Call(op, b, stateSize, planOverwrite, kind, err, message, id, pre, handled) ==
    [op |-> op, baseline |-> b, stateSize |-> stateSize,
     planOverwrite |-> planOverwrite, kind |-> kind, err |-> err,
     message |-> message, id |-> id, pre |-> pre, handled |-> handled]

NoCall ==
    Call("none", NoBaseline, I64(FALSE, <<0>>), FALSE, "", NilErr, <<>>, "",
         NewResponse(Int64Null), FALSE)

Init ==
    /\ \E v \in RequestPlanValues : resp = NewResponse(v)
    /\ call = NoCall
    /\ ncalls = 0

\* Each action hands the response r to one function and records the call.
ApplySize(r, b, stateSize, planOverwrite, kind) ==
    /\ resp' = applySizeRequiresReplace(r, b, stateSize, planOverwrite, kind)
    /\ call' = Call("applySize", b, stateSize, planOverwrite, kind, NilErr, <<>>, "",
                    r, FALSE)
    /\ ncalls' = ncalls + 1

ReadResult(r, err, notExistMessage) ==
    /\ resp' = handleReadResult(r, err, notExistMessage).resp
    /\ call' = Call("read", NoBaseline, I64(FALSE, <<0>>), FALSE, "", err,
                    notExistMessage, "", r,
                    handleReadResult(r, err, notExistMessage).handled)
    /\ ncalls' = ncalls + 1

DeleteError(r, err, id, itemKind) ==
    /\ resp' = handleDatastoreDeleteError(r, err, id, itemKind)
    /\ call' = Call("delete", NoBaseline, I64(FALSE, <<0>>), FALSE, itemKind, err,
                    <<>>, id, r, FALSE)
    /\ ncalls' = ncalls + 1

\* One call on a freshly constructed response, over the whole input space.
CallApplySize ==
    /\ ncalls = 0
    /\ \E b \in Baselines, s \in StateSizes, p \in BOOLEAN, k \in ResourceKinds :
          ApplySize(resp, b, s, p, k)

CallReadResult ==
    /\ ncalls = 0
    /\ \E e \in Errs, m \in NotExistMessages : ReadResult(resp, e, m)

CallDeleteError ==
    /\ ncalls = 0
    /\ \E e \in Errs, i \in Ids, k \in ItemKinds : DeleteError(resp, e, i, k)

Next == CallApplySize \/ CallReadResult \/ CallDeleteError

Spec == Init /\ [][Next]_vars

(***************************************************************************)
(* Sequences of calls that share a diagnostics sink                        *)
(***************************************************************************)
SeqBaselines == {NoBaseline, Baseline(<<"x">>), Baseline(<<"1", "9">>)}

SeqStateSizes == {I64(FALSE, <<1>>), I64(FALSE, <<1, 9>>)}

SeqErrs ==
    { NilErr,
      Err(AuthMarker, <<"other">>),
      Err(<<"object", "xyz", "not", "found">>, <<"other">>),
      Err(ParseMarker, <<"other">>),
      Err(ParseMarker, <<"other", "ErrResourceDoesNotExist">>) }

\* The next call gets either the same response object again, or a new
\* response that carries the diagnostics collected so far.
Handed == {resp, [NewResponse(Int64Null) EXCEPT !.Diagnostics = resp.Diagnostics]}

SeqApplySize ==
    /\ ncalls < MaxCalls
    /\ \E r \in Handed, b \in SeqBaselines, s \in SeqStateSizes, p \in BOOLEAN :
          ApplySize(r, b, s, p, "disk")

SeqReadResult ==
    /\ ncalls < MaxCalls
    /\ \E r \in Handed, e \in SeqErrs : ReadResult(r, e, <<"msg">>)

SeqDeleteError ==
    /\ ncalls < MaxCalls
    /\ \E r \in Handed, e \in SeqErrs : DeleteError(r, e, "x", "disk")

NextSeq == SeqApplySize \/ SeqReadResult \/ SeqDeleteError

SpecSeq == Init /\ [][NextSeq]_vars

(***************************************************************************)
(* Vocabulary of the properties                                            *)
(***************************************************************************)
\* The diagnostics the last call appended to the sink it was handed.
Emitted ==
    SubSeq(resp.Diagnostics, Len(call.pre.Diagnostics) + 1, Len(resp.Diagnostics))

EmittedOf(severity) == {i \in 1..Len(Emitted) : Emitted[i].severity = severity}

\* The last call left the response exactly as it was handed.
NoOp == resp = call.pre

\* A base-10 int64 numeral: an optional sign, at least one digit, only
\* digits, and a value within [-2^63, 2^63 - 1].
Digits(s) == IF s # <<>> /\ (s[1] = "+" \/ s[1] = "-") THEN Tail(s) ELSE s

Magnitude(s) ==
    LET d == Digits(s)
        nz == {i \in 1..Len(d) : d[i] # "0"}
    IN  IF nz = {} THEN <<0>>
        ELSE LET first == CHOOSE i \in nz : \A j \in nz : i <= j
             IN  [i \in 1..(Len(d) - first + 1) |-> DigitVal(d[first + i - 1])]

WellFormed(s) ==
    /\ Digits(s) # <<>>
    /\ \A i \in 1..Len(Digits(s)) : IsDigit(Digits(s)[i])
    /\ IF s[1] = "-" THEN CmpMag(Magnitude(s), IntCutoff) <= 0
                     ELSE CmpMag(Magnitude(s), MaxInt64Mag) <= 0

DecimalValue(s) == I64(s[1] = "-", Magnitude(s))

Malformed(b) == b.present /\ ~WellFormed(b.bytes)

Parses(b) == b.present /\ WellFormed(b.bytes)

(***************************************************************************)
(* Properties                                                              *)
(***************************************************************************)
\* C1: whenever applySizeRequiresReplace leaves RequiresReplace true, the
\* plan value is set (not null) and is the parsed baseline, which is not the
\* observed size; RequiresReplace is never true with the plan value unset.
ForceReplacePinsBaseline ==
    (call.op = "applySize" /\ resp.RequiresReplace) =>
        /\ Parses(call.baseline)
        /\ ~resp.PlanValue.null
        /\ resp.PlanValue = Int64Value(DecimalValue(call.baseline.bytes))
        /\ resp.PlanValue # Int64Value(call.stateSize)

\* A replacement forced on a response whose plan value was null.
ForceReplaceFromNullPlan ==
    /\ call.op = "applySize"
    /\ resp.RequiresReplace
    /\ call.pre.PlanValue.null
    /\ call.baseline.bytes # FormatInt(DecimalValue(call.baseline.bytes))

\* C2: a baseline that parses and differs from the observed size, with the
\* policy on, gives RequiresReplace, the plan value pinned to the baseline
\* and exactly one diagnostic: a Warning whose detail cites both sizes.
DriftForcesReplaceWithOneWarning ==
    (/\ call.op = "applySize"
     /\ Parses(call.baseline)
     /\ DecimalValue(call.baseline.bytes) # call.stateSize
     /\ call.planOverwrite) =>
        /\ resp.RequiresReplace
        /\ resp.PlanValue = Int64Value(DecimalValue(call.baseline.bytes))
        /\ Len(Emitted) = 1
        /\ Emitted[1].severity = "Warning"
        /\ Contains(Emitted[1].detail,
                    <<"Previous size: ">> \o FormatInt(DecimalValue(call.baseline.bytes))
                    \o <<" saved in state does not match current size from datastore: ">>)
        /\ Contains(Emitted[1].detail,
                    <<" saved in state does not match current size from datastore: ">>
                    \o FormatInt(call.stateSize)
                    \o <<". You can disable this behaviour by using overwrite=false">>)
        /\ EmittedOf("Error") = {}

\* A shrink to a negative observed size that forced a replacement.
ShrinkToNegativeForcedReplace ==
    /\ call.op = "applySize"
    /\ call.planOverwrite
    /\ call.stateSize.neg
    /\ Parses(call.baseline)
    /\ ~DecimalValue(call.baseline.bytes).neg
    /\ resp.RequiresReplace

\* C3: with an absent baseline, or a baseline that parses to the observed
\* size, the call changes nothing: no diagnostic, RequiresReplace and the
\* plan value as they were.
AbsentOrEqualBaselineIsNoOp ==
    (/\ call.op = "applySize"
     /\ \/ ~call.baseline.present
        \/ Parses(call.baseline) /\ DecimalValue(call.baseline.bytes) = call.stateSize) =>
        /\ NoOp
        /\ Emitted = <<>>
        /\ ~resp.RequiresReplace

\* An equal baseline, written with a sign or leading zeros, with the policy on.
EqualBaselineWithPolicyOn ==
    /\ call.op = "applySize"
    /\ call.planOverwrite
    /\ Parses(call.baseline)
    /\ DecimalValue(call.baseline.bytes) = call.stateSize
    /\ call.baseline.bytes # FormatInt(call.stateSize)

\* C4: with planOverwrite false the call never sets RequiresReplace, never
\* touches the plan value and never emits the drift Warning.
PolicyOffNeverFlagsDrift ==
    (call.op = "applySize" /\ ~call.planOverwrite) =>
        /\ ~resp.RequiresReplace
        /\ resp.PlanValue = call.pre.PlanValue
        /\ EmittedOf("Warning") = {}
        /\ resp.StateRemoved = call.pre.StateRemoved

\* A real drift that the policy told the call to ignore.
DriftIgnoredByPolicy ==
    /\ call.op = "applySize"
    /\ ~call.planOverwrite
    /\ Parses(call.baseline)
    /\ DecimalValue(call.baseline.bytes) # call.stateSize
    /\ NoOp

\* C5: a present baseline that is not a base-10 int64 numeral gives exactly
\* one Error and no Warning, RequiresReplace false and the plan value
\* untouched; and no call has RequiresReplace together with an Error of its own.
MalformedBaselineIsOneError ==
    /\ (call.op = "applySize" /\ Malformed(call.baseline)) =>
          /\ Len(Emitted) = 1
          /\ Emitted[1].severity = "Error"
          /\ EmittedOf("Warning") = {}
          /\ ~resp.RequiresReplace
          /\ resp.PlanValue = call.pre.PlanValue
    /\ call.op = "applySize" => ~(resp.RequiresReplace /\ EmittedOf("Error") # {})

\* An empty, non-nil baseline reported as an error with the policy on.
EmptyBaselineReported ==
    /\ call.op = "applySize"
    /\ call.baseline = Baseline(<<>>)
    /\ call.planOverwrite
    /\ Len(Emitted) = 1

\* C6: a read error whose message contains "failed to authenticate" gives
\* exactly one Error with summary "Failed to authenticate", returns true, and
\* neither removes the resource from state nor emits a Warning.
AuthFailureNeverRemovesFromState ==
    (call.op = "read" /\ ~call.err.isNil /\ Contains(call.err.msg, AuthMarker)) =>
        /\ Emitted = <<Diagnostic("Error", <<"Failed to authenticate">>, call.err.msg)>>
        /\ call.handled
        /\ resp.StateRemoved = call.pre.StateRemoved
        /\ ~resp.StateRemoved
        /\ EmittedOf("Warning") = {}

\* An authentication failure inside a longer message that also wraps the
\* does-not-exist sentinel.
AuthFailureInsideLongerMessage ==
    /\ call.op = "read"
    /\ Contains(call.err.msg, AuthMarker)
    /\ call.err.msg # AuthMarker
    /\ ErrorsIs(call.err, "ErrResourceDoesNotExist")
    /\ call.handled

\* C7: handleReadResult returns true exactly when an error is present; with
\* no error it changes nothing; with an error without the authentication
\* marker it removes the resource from state and emits exactly one Warning,
\* summary notExistMessage, detail the error text.
ReadHandledIffError ==
    call.op = "read" =>
        /\ call.handled <=> ~call.err.isNil
        /\ call.err.isNil => NoOp
        /\ (~call.err.isNil /\ ~Contains(call.err.msg, AuthMarker)) =>
              /\ resp.StateRemoved
              /\ Emitted = <<Diagnostic("Warning", call.message, call.err.msg)>>

\* A read error without the marker, handled by removal.
ReadErrorRemovedFromState ==
    /\ call.op = "read"
    /\ call.err.msg = <<"object", "xyz", "not", "found">>
    /\ call.message = <<"msg">>
    /\ call.handled
    /\ resp.StateRemoved

\* C8: on delete, a nil error or an error matching the does-not-exist
\* sentinel changes nothing and emits nothing, even when its message
\* contains "unable to parse".
DeleteAbsentIsSilent ==
    (/\ call.op = "delete"
     /\ call.err.isNil \/ ErrorsIs(call.err, "ErrResourceDoesNotExist")) =>
        /\ Emitted = <<>>
        /\ NoOp

\* A wrapped sentinel whose message contains the parse-failure marker.
WrappedSentinelWithParseMarker ==
    /\ call.op = "delete"
    /\ ~call.err.isNil
    /\ call.err.chain = <<"other", "ErrResourceDoesNotExist">>
    /\ Contains(call.err.msg, ParseMarker)
    /\ NoOp

\* C9: on delete, an error that does not match the sentinel gives exactly
\* one diagnostic: a Warning naming the item kind and the id when the message
\* contains "unable to parse", otherwise an Error naming the item kind, the
\* id and the error text.
DeleteErrorIsOneDiagnostic ==
    (/\ call.op = "delete"
     /\ ~call.err.isNil
     /\ ~ErrorsIs(call.err, "ErrResourceDoesNotExist")) =>
        /\ Len(Emitted) = 1
        /\ Contains(Emitted[1].summary, <<call.kind>>)
        /\ Contains(Emitted[1].detail, <<call.kind, " '", call.id>>)
        /\ IF Contains(call.err.msg, ParseMarker)
             THEN Emitted[1].severity = "Warning"
             ELSE /\ Emitted[1].severity = "Error"
                  /\ Contains(Emitted[1].detail, <<"', unexpected error: ">> \o call.err.msg)
        /\ resp.StateRemoved = call.pre.StateRemoved

\* A parse failure reported from inside a longer message.
ParseFailureInsideLongerMessage ==
    /\ call.op = "delete"
    /\ ~ErrorsIs(call.err, "ErrResourceDoesNotExist")
    /\ Contains(call.err.msg, ParseMarker)
    /\ call.err.msg # ParseMarker
    /\ Len(Emitted) = 1
    /\ Emitted[1].severity = "Warning"

\* The structural outcomes a call produced on the response r it was handed.
Outcomes(r, after) ==
    {o \in {"force-replace", "remove-from-state", "hard-error"} :
        \/ o = "force-replace" /\ after.RequiresReplace /\ ~r.RequiresReplace
        \/ o = "remove-from-state" /\ after.StateRemoved /\ ~r.StateRemoved
        \/ o = "hard-error"
             /\ \E i \in (Len(r.Diagnostics) + 1)..Len(after.Diagnostics) :
                   after.Diagnostics[i].severity = "Error"}

\* C10: every call keeps the diagnostics already in the sink, in place and
\* unchanged, appends at most one, and produces at most one of
\* force-replace, remove-from-state and hard-error.
SinkIsAppendOnly ==
    [][/\ Len(resp'.Diagnostics) \in {Len(resp.Diagnostics), Len(resp.Diagnostics) + 1}
       /\ SubSeq(resp'.Diagnostics, 1, Len(resp.Diagnostics)) = resp.Diagnostics
       /\ Cardinality(Outcomes(call'.pre, resp')) <= 1]_vars

\* A third call on a sink that already holds a Warning and an Error.
ThreeCallsSharedSink ==
    /\ ncalls >= 3
    /\ Len(resp.Diagnostics) = 3
    /\ \E i, j \in 1..2 : /\ resp.Diagnostics[i].severity = "Warning"
                          /\ resp.Diagnostics[j].severity = "Error"
    /\ resp.RequiresReplace
    /\ resp.StateRemoved

====
